---- MODULE Spec2Model ----
(***************************************************************************)
(* Session controller of the event QR ticket scanner (src/src/App.jsx).    *)
(*                                                                         *)
(* The React component is modelled as a state machine.  Its state hooks    *)
(* and refs are the variables; every handler is an action.  An async       *)
(* handler is cut at each await: the code between two awaits is one        *)
(* atomic step of a task, and tasks interleave only at awaits (the         *)
(* single-threaded event loop).  External calls (getUserMedia, the         *)
(* Html5Qrcode decoder's start/stop/clear, the permission query, the       *)
(* audio context) resolve with a nondeterministic outcome.                 *)
(***************************************************************************)
EXTENDS Integers, Sequences, FiniteSets, Bags, TLC

\* ------------------------------------------------------------------ bounds
MaxTasks == 2        \* async handlers in flight at the same time
MaxInst == 2         \* Html5Qrcode objects alive at the same time
NCodes == 2          \* distinct ticket codes shown to the camera (ledger runs)
NHistoryCodes == 11  \* distinct ticket codes of the history runs
MaxTicks == 3

\* ------------------------------------------------------- program constants
DEBOUNCE_TIME == 2000    \* App.jsx:20
DISPLAY_TIME == 2000     \* App.jsx:414 and App.jsx:437
HISTORY_KEEP == 9        \* App.jsx:430, prev.slice(0, 9)

Codes == 1..NCodes
HistoryCodes == 1..NHistoryCodes
TickStep == DEBOUNCE_TIME \div 2
MaxTime == MaxTicks * TickStep
InstIds == 1..MaxInst

Min(a, b) == IF a < b THEN a ELSE b

VARIABLES
    \* React state (useState)
    isScanning, scannedData, scanStatus, scanHistory, error, isInitializing,
    permissionStatus, showPermissionPrompt, isSecureContext,
    \* refs (useRef)
    html5QrCodeRef, lastScanRef, scannedCodesRef, wasScanningRef, audioContextRef,
    \* environment
    location,      \* window.location: [protocol, hostname]
    mediaDevices,  \* navigator.mediaDevices.getUserMedia exists
    audioAvailable,\* window.AudioContext can be constructed
    overlap,       \* how many handlers the environment lets be in flight at once
    visibility,    \* document.visibilityState
    video,         \* the "#reader video" element, or NoVideo
    insts,         \* Html5Qrcode objects: InstIds -> "idle" | "running"
    now,           \* Date.now(), ms since the page loaded
    timers,        \* deadlines of the pending auto-clear setTimeout callbacks
    \* control
    mountPc,       \* the mount effect's permission query: "query" | "done"
    permWatch,     \* result.onchange is installed
    tasks,         \* bag of the async handlers suspended at an await
    \* observers (not program state)
    event,         \* the last decode event: its code and time, the branch taken,
                   \* and what the handler read (last sighting, code known) and
                   \* the code's previous arrival
    accepts,       \* code -> number of events classified Accepted
    arrivals       \* code in Codes -> its latest arrival: [at, outcome, known]

reactVars == <<isScanning, error, isInitializing, permissionStatus,
               showPermissionPrompt, isSecureContext>>
displayVars == <<scannedData, scanStatus, timers>>
ledgerVars == <<lastScanRef, scannedCodesRef, scanHistory>>
observerVars == <<event, accepts, arrivals>>
pageVars == <<location, mediaDevices, audioAvailable, overlap>>
envVars == <<pageVars, visibility, video, insts, now>>
controlVars == <<mountPc, permWatch, tasks>>
vars == <<reactVars, displayVars, ledgerVars, observerVars, envVars, controlVars,
          html5QrCodeRef, wasScanningRef, audioContextRef>>

\* ------------------------------------------------------------- environment
\* The pages the controller is loaded in: an HTTPS origin, a loopback origin
\* of a browser without camera API or audio backend, and a plain-HTTP origin
\* on the local network.
Https == [protocol |-> "https:", hostname |-> "scan.example.org"]
Loopback == [protocol |-> "http:", hostname |-> "localhost"]
PlainHttp == [protocol |-> "http:", hostname |-> "192.168.1.20"]
Pages == { [location |-> Https, mediaDevices |-> TRUE, audioAvailable |-> TRUE],
           [location |-> Loopback, mediaDevices |-> FALSE, audioAvailable |-> FALSE],
           [location |-> PlainHttp, mediaDevices |-> TRUE, audioAvailable |-> TRUE] }

NoVideo == [present |-> FALSE, readyState |-> 0, videoWidth |-> 0, videoHeight |-> 0]
LiveVideo == [present |-> TRUE, readyState |-> 4, videoWidth |-> 640, videoHeight |-> 480]
\* what is left of the stream after the platform suspended the page
DeadVideos == { NoVideo,
                [present |-> TRUE, readyState |-> 1, videoWidth |-> 640, videoHeight |-> 480],
                [present |-> TRUE, readyState |-> 4, videoWidth |-> 0, videoHeight |-> 0] }

\* stale is an observer: the operator invoked stop while this handler was
\* starting the decoder.  probe is the handler's throwaway getUserMedia
\* stream: "none" until the probe resolved, "released" once the continuation
\* has stopped its tracks (149-152, 459-463).
NoTask == [kind |-> "none", pc |-> "none", inst |-> 0,
           capScanning |-> FALSE, capPerm |-> "prompt", stale |-> FALSE,
           probe |-> "none"]
NoScan == [code |-> 0, timestamp |-> 0]
NoData == [text |-> 0, timestamp |-> 0, isDuplicate |-> FALSE]
NoArrival == [at |-> -1, outcome |-> "None", known |-> FALSE]
NoEvent == [code |-> 0, at |-> 0, outcome |-> "None",
            last |-> NoScan, known |-> FALSE, prev |-> NoArrival]

\* ------------------------------------------------------------ pure helpers
\* checkSecureContext's verdict (App.jsx:108-117)
IsSecure(loc) ==
    LET isLocalhost == loc.hostname = "localhost" \/ loc.hostname = "127.0.0.1"
        isHTTPS == loc.protocol = "https:"
    IN  isHTTPS \/ isLocalhost

\* checkCameraWorking (App.jsx:333-340)
checkCameraWorking ==
    IF video.present
    THEN video.readyState >= 2 /\ video.videoWidth > 0 /\ video.videoHeight > 0
    ELSE FALSE

\* Array.prototype.slice(a, b) on a sequence (0-based, end exclusive)
Slice(s, a, b) == SubSeq(s, a + 1, Min(b, Len(s)))

\* Date.prototype.toLocaleTimeString: the wall-clock time, to the second
LocaleTimeString(t) == t \div 1000

\* scanner.isScanning() of the Html5Qrcode library
InstScanning(i) == insts[i] = "running"

OpenHandles == { i \in InstIds : insts[i] = "running" }

\* the handlers in flight, and whether one more may start (the model's bound)
Running == BagToSet(tasks)
CanSpawn == BagCardinality(tasks) < overlap

\* an Html5Qrcode object no reference reaches any more
Unreferenced(i) ==
    /\ insts[i] = "idle"
    /\ html5QrCodeRef # i
    /\ \A t \in Running : t.inst # i

FreeInsts == { i \in InstIds : Unreferenced(i) }
FreeInst == CHOOSE i \in FreeInsts : \A j \in FreeInsts : i <= j

Spawn(rec) == tasks (+) SetToBag({rec})
Finish(t) == tasks (-) SetToBag({t})
Become(t, rec) == Finish(t) (+) SetToBag({rec})
Goto(t, pc) == Become(t, [t EXCEPT !.pc = pc])

\* --------------------------------------------------------------- initial state
\* The state after the first render and the mount effects (App.jsx:6-20, 486-489):
\* checkSecureContext has run, the permission query is pending.
Loaded(limit) ==
    /\ overlap = limit
    /\ \E e \in Pages : /\ location = e.location
                        /\ mediaDevices = e.mediaDevices
                        /\ audioAvailable = e.audioAvailable
    /\ isScanning = FALSE
    /\ scannedData = NoData
    /\ scanStatus = "null"
    /\ scanHistory = << >>
    /\ error = "null"
    /\ isInitializing = FALSE
    /\ permissionStatus = "prompt"
    /\ showPermissionPrompt = TRUE
    /\ isSecureContext = IsSecure(location)
    /\ html5QrCodeRef = 0
    /\ lastScanRef = NoScan
    /\ scannedCodesRef = {}
    /\ wasScanningRef = FALSE
    /\ audioContextRef = FALSE
    /\ visibility = "visible"
    /\ video = NoVideo
    /\ insts = [i \in InstIds |-> "idle"]
    /\ now = 0
    /\ timers = {}
    /\ mountPc = "query"
    /\ permWatch = FALSE
    /\ tasks = EmptyBag
    /\ event = NoEvent
    /\ accepts = << >>
    /\ arrivals = [c \in Codes |-> NoArrival]

\* ------------------------------------------------------ feedback (App.jsx:32-105)
\* initAudioContext (36-48): creates the context once; the constructor throws
\* where the platform has no audio backend, and the ref stays null.
initAudioContext(ref) == IF ref THEN TRUE ELSE audioAvailable

\* ------------------------------------------- requestCameraPermission (120-179)
\* The three buttons that call it: the prompt (625), Try Again (673) and the
\* Start control (726).
StartButtonShown == ~isScanning \/ error # "null"

\* The synchronous part, up to the getUserMedia await or an early throw.
requestCameraPermission ==
    /\ StartButtonShown
    /\ showPermissionPrompt' = FALSE
    /\ isSecureContext' = IsSecure(location)
    /\ IF ~IsSecure(location)
       THEN /\ isInitializing' = FALSE
            /\ permissionStatus' = "denied"
            /\ error' = "HTTPS_REQUIRED"
            /\ UNCHANGED tasks
       ELSE IF ~mediaDevices
       THEN /\ isInitializing' = FALSE
            /\ error' = "Camera not supported"
            /\ UNCHANGED <<permissionStatus, tasks>>
       ELSE /\ CanSpawn
            /\ isInitializing' = TRUE
            /\ error' = "null"
            /\ tasks' = Spawn([NoTask EXCEPT !.kind = "request", !.pc = "probe"])
            /\ UNCHANGED permissionStatus
    /\ UNCHANGED <<isScanning, displayVars, ledgerVars, observerVars, envVars,
                   mountPc, permWatch, html5QrCodeRef, wasScanningRef, audioContextRef>>

ProbeResults == {"granted", "NotAllowedError", "PermissionDeniedError",
                 "NotFoundError", "DevicesNotFoundError", "OtherError"}

\* err.name is one of the two names of a refused permission (169, 477)
IsDenied(name) == name = "NotAllowedError" \/ name = "PermissionDeniedError"

ProbeErrorGeneric(name) == "Failed to access camera"

\* The error message requestCameraPermission's catch sets for a probe failure
\* (169-177; an error of another name comes without a message here).
ProbeError(name) ==
    IF IsDenied(name) THEN "Camera permission denied"
    ELSE IF name = "NotFoundError" \/ name = "DevicesNotFoundError" THEN "No camera found"
    ELSE "Failed to access camera"

\* getUserMedia resolves in requestCameraPermission (142-157, 162-178)
requestProbeResolve(t, result) ==
    /\ t.kind = "request" /\ t.pc = "probe"
    /\ IF result = "granted"
       THEN /\ permissionStatus' = "granted"
            /\ audioContextRef' = initAudioContext(audioContextRef)
            /\ tasks' = Become(t, [t EXCEPT !.pc = "delay", !.probe = "released"])
            /\ UNCHANGED <<isInitializing, error>>
       ELSE /\ isInitializing' = FALSE
            /\ permissionStatus' = IF IsDenied(result) THEN "denied"
                                   ELSE permissionStatus
            /\ error' = ProbeError(result)
            /\ tasks' = Finish(t)
            /\ UNCHANGED audioContextRef
    /\ UNCHANGED <<isScanning, showPermissionPrompt, isSecureContext, displayVars,
                   ledgerVars, observerVars, envVars, mountPc, permWatch,
                   html5QrCodeRef, wasScanningRef>>

\* ------------------------------------- autoStartIfPermissionGranted (442-483)
\* The setTimeout callback: up to the getUserMedia await or an early return.
autoStartIfPermissionGranted(t) ==
    /\ t.kind = "auto" /\ t.pc = "timer"
    /\ isSecureContext' = IsSecure(location)
    /\ tasks' = IF IsSecure(location) /\ mediaDevices THEN Goto(t, "probe") ELSE Finish(t)
    /\ UNCHANGED <<isScanning, error, isInitializing, permissionStatus,
                   showPermissionPrompt, displayVars, ledgerVars, observerVars, envVars,
                   mountPc, permWatch, html5QrCodeRef, wasScanningRef, audioContextRef>>

autoProbeResolveStartsAnyway(t, result) ==
    /\ t.kind = "auto" /\ t.pc = "probe"
    /\ IF result = "granted"
       THEN /\ showPermissionPrompt' = FALSE
            /\ permissionStatus' = "granted"
            /\ audioContextRef' = initAudioContext(audioContextRef)
            /\ tasks' = Become(t, [t EXCEPT !.pc = "delay", !.probe = "released"])
       ELSE /\ permissionStatus' = IF IsDenied(result) THEN "denied"
                                   ELSE permissionStatus
            /\ tasks' = Goto(t, "delay")
            /\ UNCHANGED <<showPermissionPrompt, audioContextRef>>
    /\ UNCHANGED <<isScanning, error, isInitializing, isSecureContext, displayVars,
                   ledgerVars, observerVars, envVars, mountPc, permWatch,
                   html5QrCodeRef, wasScanningRef>>

\* getUserMedia resolves in autoStartIfPermissionGranted (459-479)
autoProbeResolve(t, result) ==
    /\ t.kind = "auto" /\ t.pc = "probe"
    /\ IF result = "granted"
       THEN /\ showPermissionPrompt' = FALSE
            /\ permissionStatus' = "granted"
            /\ audioContextRef' = initAudioContext(audioContextRef)
            /\ tasks' = Become(t, [t EXCEPT !.pc = "delay", !.probe = "released"])
       ELSE /\ permissionStatus' = IF IsDenied(result) THEN "denied"
                                   ELSE permissionStatus
            /\ tasks' = Finish(t)
            /\ UNCHANGED <<showPermissionPrompt, audioContextRef>>
    /\ UNCHANGED <<isScanning, error, isInitializing, isSecureContext, displayVars,
                   ledgerVars, observerVars, envVars, mountPc, permWatch,
                   html5QrCodeRef, wasScanningRef>>

\* ------------------------------------------------------ startScanner (181-315)
\* After the caller's delay: create the decoder object, publish it in the ref,
\* clear the reader element, and wait for the first start attempt (184-216).
startScanner(t) ==
    /\ t.kind \in {"request", "auto", "restart"} /\ t.pc = "delay"
    /\ FreeInsts # {}
    /\ html5QrCodeRef' = FreeInst
    /\ video' = NoVideo
    /\ tasks' = Become(t, [t EXCEPT !.pc = "try1", !.inst = FreeInst])
    /\ UNCHANGED <<reactVars, displayVars, ledgerVars, observerVars, pageVars,
                   visibility, insts, now, mountPc, permWatch,
                   wasScanningRef, audioContextRef>>

\* The selector a pending attempt was issued with (217, 236, 253).
Selector(pc) ==
    IF pc = "try1" THEN "facingMode:environment"
    ELSE IF pc = "try2" THEN "environment"
    ELSE "facingMode:user"

NextTryUserFacing(pc) == "try3"

\* the attempt that follows a failed one (233-234, 250-252)
NextTry(pc) == IF pc = "try1" THEN "try2" ELSE "try3"

startResolveKeepsHandle(t, ok) ==
    /\ t.pc \in {"try1", "try2", "try3"}
    /\ IF ok
       THEN /\ insts' = [insts EXCEPT ![t.inst] = "running"]
            /\ video' = LiveVideo
            /\ isScanning' = TRUE
            /\ isInitializing' = FALSE
            /\ wasScanningRef' = TRUE
            /\ tasks' = Finish(t)
            /\ UNCHANGED <<error, html5QrCodeRef>>
       ELSE IF t.pc # "try3"
       THEN /\ tasks' = Goto(t, NextTry(t.pc))
            /\ UNCHANGED <<insts, video, isScanning, isInitializing, wasScanningRef,
                           error, html5QrCodeRef>>
       ELSE /\ error' = "Failed to start camera"
            /\ isScanning' = FALSE
            /\ isInitializing' = FALSE
            /\ IF html5QrCodeRef # 0 /\ InstScanning(html5QrCodeRef)
               THEN /\ tasks' = Become(t, [t EXCEPT !.pc = "cleanupStop", !.inst = html5QrCodeRef])
                    /\ UNCHANGED html5QrCodeRef
               ELSE /\ UNCHANGED html5QrCodeRef
                    /\ tasks' = Finish(t)
            /\ UNCHANGED <<insts, video, wasScanningRef>>
    /\ UNCHANGED <<permissionStatus, showPermissionPrompt, isSecureContext, displayVars,
                   ledgerVars, observerVars, pageVars, visibility, now,
                   mountPc, permWatch, audioContextRef>>

startResolveStaysInitializing(t, ok) ==
    /\ t.pc \in {"try1", "try2", "try3"}
    /\ IF ok
       THEN /\ insts' = [insts EXCEPT ![t.inst] = "running"]
            /\ video' = LiveVideo
            /\ isScanning' = TRUE
            /\ isInitializing' = FALSE
            /\ wasScanningRef' = TRUE
            /\ tasks' = Finish(t)
            /\ UNCHANGED <<error, html5QrCodeRef>>
       ELSE IF t.pc # "try3"
       THEN /\ tasks' = Goto(t, NextTry(t.pc))
            /\ UNCHANGED <<insts, video, isScanning, isInitializing, wasScanningRef,
                           error, html5QrCodeRef>>
       ELSE /\ error' = "Failed to start camera"
            /\ isScanning' = FALSE
            /\ UNCHANGED isInitializing
            /\ IF html5QrCodeRef # 0 /\ InstScanning(html5QrCodeRef)
               THEN /\ tasks' = Become(t, [t EXCEPT !.pc = "cleanupStop", !.inst = html5QrCodeRef])
                    /\ UNCHANGED html5QrCodeRef
               ELSE /\ html5QrCodeRef' = 0
                    /\ tasks' = Finish(t)
            /\ UNCHANGED <<insts, video, wasScanningRef>>
    /\ UNCHANGED <<permissionStatus, showPermissionPrompt, isSecureContext, displayVars,
                   ledgerVars, observerVars, pageVars, visibility, now,
                   mountPc, permWatch, audioContextRef>>

\* An html5QrCode.start attempt resolves (216-271), or the last one rejects and
\* the catch runs up to its first await (295-313).
startResolve(t, ok) ==
    /\ t.pc \in {"try1", "try2", "try3"}
    /\ IF ok
       THEN /\ insts' = [insts EXCEPT ![t.inst] = "running"]
            /\ video' = LiveVideo
            /\ isScanning' = TRUE
            /\ isInitializing' = FALSE
            /\ wasScanningRef' = TRUE
            /\ tasks' = Finish(t)
            /\ UNCHANGED <<error, html5QrCodeRef>>
       ELSE IF t.pc # "try3"
       THEN /\ tasks' = Goto(t, NextTry(t.pc))
            /\ UNCHANGED <<insts, video, isScanning, isInitializing, wasScanningRef,
                           error, html5QrCodeRef>>
       ELSE /\ error' = "Failed to start camera"
            /\ isScanning' = FALSE
            /\ isInitializing' = FALSE
            /\ IF html5QrCodeRef # 0 /\ InstScanning(html5QrCodeRef)
               THEN /\ tasks' = Become(t, [t EXCEPT !.pc = "cleanupStop", !.inst = html5QrCodeRef])
                    /\ UNCHANGED html5QrCodeRef
               ELSE /\ html5QrCodeRef' = 0
                    /\ tasks' = Finish(t)
            /\ UNCHANGED <<insts, video, wasScanningRef>>
    /\ UNCHANGED <<permissionStatus, showPermissionPrompt, isSecureContext, displayVars,
                   ledgerVars, observerVars, pageVars, visibility, now,
                   mountPc, permWatch, audioContextRef>>

\* What a resolved decoder stop does to the decoder object and the video element.
StoppedInsts(i) == [insts EXCEPT ![i] = "idle"]
StoppedVideo(i) == IF insts[i] = "running" THEN NoVideo ELSE video

\* scanner.stop() resolves or rejects in startScanner's catch (306-312)
cleanupStopResolve(t, ok) ==
    /\ t.pc = "cleanupStop"
    /\ insts' = IF ok THEN StoppedInsts(t.inst) ELSE insts
    /\ video' = IF ok THEN StoppedVideo(t.inst) ELSE video
    /\ html5QrCodeRef' = 0
    /\ tasks' = Finish(t)
    /\ UNCHANGED <<reactVars, displayVars, ledgerVars, observerVars, pageVars,
                   visibility, now, mountPc, permWatch,
                   wasScanningRef, audioContextRef>>

\* ------------------------------------------------------ stopScanning (317-330)
\* Observer: the handlers that are starting the decoder when stop is invoked
\* (past their timer, not yet settled) are stale from then on.
Starting(t) == t.kind \in {"request", "auto", "restart"} /\ t.pc # "timer"
MarkStale(t) == IF Starting(t) THEN [t EXCEPT !.stale = TRUE] ELSE t
Overtaken == BagOfAll(MarkStale, tasks)

\* The Stop control (730), shown while isScanning.
stopScanning ==
    /\ isScanning
    /\ IF html5QrCodeRef # 0
       THEN /\ CanSpawn
            /\ tasks' = Overtaken (+) SetToBag({[NoTask EXCEPT !.kind = "stop",
                                                               !.pc = "stop",
                                                               !.inst = html5QrCodeRef]})
            /\ UNCHANGED <<isScanning, wasScanningRef>>
       ELSE /\ isScanning' = FALSE
            /\ wasScanningRef' = FALSE
            /\ tasks' = Overtaken
    /\ UNCHANGED <<error, isInitializing, permissionStatus, showPermissionPrompt,
                   isSecureContext, displayVars, ledgerVars, observerVars, envVars,
                   mountPc, permWatch, html5QrCodeRef, audioContextRef>>

stopResolveNewSession(t, ok, clearOk) ==
    /\ t.kind = "stop" /\ t.pc = "stop"
    /\ insts' = IF ok THEN StoppedInsts(t.inst) ELSE insts
    /\ video' = IF ok THEN StoppedVideo(t.inst) ELSE video
    /\ IF ok /\ html5QrCodeRef # 0 /\ clearOk
       THEN /\ html5QrCodeRef' = 0
            /\ isScanning' = FALSE
       ELSE UNCHANGED <<html5QrCodeRef, isScanning>>
    /\ wasScanningRef' = FALSE
    /\ scannedCodesRef' = {}
    /\ tasks' = Finish(t)
    /\ UNCHANGED <<error, isInitializing, permissionStatus, showPermissionPrompt,
                   isSecureContext, displayVars, lastScanRef, scanHistory, observerVars,
                   pageVars, visibility, now, mountPc, permWatch, audioContextRef>>

stopResolveRaises(t, ok, clearOk) ==
    /\ t.kind = "stop" /\ t.pc = "stop"
    /\ insts' = IF ok THEN StoppedInsts(t.inst) ELSE insts
    /\ video' = IF ok THEN StoppedVideo(t.inst) ELSE video
    /\ IF ok /\ html5QrCodeRef # 0 /\ clearOk
       THEN /\ html5QrCodeRef' = 0
            /\ isScanning' = FALSE
       ELSE UNCHANGED <<html5QrCodeRef, isScanning>>
    /\ wasScanningRef' = FALSE
    /\ tasks' = Finish(t)
    /\ error' = IF ok /\ html5QrCodeRef # 0 /\ clearOk
                THEN error ELSE "Failed to stop scanner"
    /\ UNCHANGED <<isInitializing, permissionStatus, showPermissionPrompt,
                   isSecureContext, displayVars, ledgerVars, observerVars, pageVars,
                   visibility, now, mountPc, permWatch, audioContextRef>>

\* stop() resolves or rejects in stopScanning; clear() is then called on whatever
\* the ref holds by now, and may throw (320-329).
stopResolve(t, ok, clearOk) ==
    /\ t.kind = "stop" /\ t.pc = "stop"
    /\ insts' = IF ok THEN StoppedInsts(t.inst) ELSE insts
    /\ video' = IF ok THEN StoppedVideo(t.inst) ELSE video
    /\ IF ok /\ html5QrCodeRef # 0 /\ clearOk
       THEN /\ html5QrCodeRef' = 0
            /\ isScanning' = FALSE
       ELSE UNCHANGED <<html5QrCodeRef, isScanning>>
    /\ wasScanningRef' = FALSE
    /\ tasks' = Finish(t)
    /\ UNCHANGED <<error, isInitializing, permissionStatus, showPermissionPrompt,
                   isSecureContext, displayVars, ledgerVars, observerVars, pageVars,
                   visibility, now, mountPc, permWatch, audioContextRef>>

\* -------------------------------------------- restartScannerIfNeeded (344-382)
restartWithoutTeardown(t) ==
    /\ t.kind = "restart" /\ t.pc = "timer"
    /\ IF wasScanningRef /\ t.capPerm = "granted"
          /\ (~t.capScanning \/ ~checkCameraWorking)
       THEN /\ isInitializing' = TRUE
            /\ error' = "null"
            /\ tasks' = Goto(t, "delay")
       ELSE /\ tasks' = Finish(t)
            /\ UNCHANGED <<isInitializing, error>>
    /\ UNCHANGED <<isScanning, permissionStatus, showPermissionPrompt, isSecureContext,
                   displayVars, ledgerVars, observerVars, envVars, mountPc, permWatch,
                   html5QrCodeRef, wasScanningRef, audioContextRef>>

restartIgnoringFlag(t) ==
    /\ t.kind = "restart" /\ t.pc = "timer"
    /\ IF t.capPerm = "granted" /\ (~t.capScanning \/ ~checkCameraWorking)
       THEN /\ isInitializing' = TRUE
            /\ error' = "null"
            /\ tasks' = IF html5QrCodeRef # 0
                        THEN Become(t, [t EXCEPT !.pc = "stop", !.inst = html5QrCodeRef])
                        ELSE Goto(t, "delay")
       ELSE /\ tasks' = Finish(t)
            /\ UNCHANGED <<isInitializing, error>>
    /\ UNCHANGED <<isScanning, permissionStatus, showPermissionPrompt, isSecureContext,
                   displayVars, ledgerVars, observerVars, envVars, mountPc, permWatch,
                   html5QrCodeRef, wasScanningRef, audioContextRef>>

\* The setTimeout callback of a visible/focus/pageshow signal: the guard, and
\* the teardown up to its first await.  isScanning and permissionStatus are
\* the values the handler's closure captured when the signal arrived.
restartScannerIfNeeded(t) ==
    /\ t.kind = "restart" /\ t.pc = "timer"
    /\ IF wasScanningRef /\ t.capPerm = "granted"
          /\ (~t.capScanning \/ ~checkCameraWorking)
       THEN /\ isInitializing' = TRUE
            /\ error' = "null"
            /\ tasks' = IF html5QrCodeRef # 0
                        THEN Become(t, [t EXCEPT !.pc = "stop", !.inst = html5QrCodeRef])
                        ELSE Goto(t, "delay")
       ELSE /\ tasks' = Finish(t)
            /\ UNCHANGED <<isInitializing, error>>
    /\ UNCHANGED <<isScanning, permissionStatus, showPermissionPrompt, isSecureContext,
                   displayVars, ledgerVars, observerVars, envVars, mountPc, permWatch,
                   html5QrCodeRef, wasScanningRef, audioContextRef>>

restartStopResolveGivesUp(t, ok) ==
    /\ t.kind = "restart" /\ t.pc = "stop"
    /\ insts' = IF ok THEN StoppedInsts(t.inst) ELSE insts
    /\ video' = IF ok THEN StoppedVideo(t.inst) ELSE video
    /\ html5QrCodeRef' = 0
    /\ tasks' = IF ok THEN Become(t, [t EXCEPT !.pc = "delay", !.inst = 0])
                ELSE Finish(t)
    /\ UNCHANGED <<reactVars, displayVars, ledgerVars, observerVars, pageVars,
                   visibility, now, mountPc, permWatch,
                   wasScanningRef, audioContextRef>>

restartStopResolveForgets(t, ok) ==
    /\ t.kind = "restart" /\ t.pc = "stop"
    /\ insts' = IF ok THEN StoppedInsts(t.inst) ELSE insts
    /\ video' = IF ok THEN StoppedVideo(t.inst) ELSE video
    /\ html5QrCodeRef' = 0
    /\ tasks' = Become(t, [t EXCEPT !.pc = "delay", !.inst = 0])
    /\ scannedCodesRef' = {}
    /\ UNCHANGED <<lastScanRef, scanHistory>>
    /\ UNCHANGED <<reactVars, displayVars, observerVars, pageVars,
                   visibility, now, mountPc, permWatch,
                   wasScanningRef, audioContextRef>>

\* stop() of the old decoder resolves or rejects; either way the ref is
\* dropped and the 500 ms delay starts (359-370).
restartStopResolve(t, ok) ==
    /\ t.kind = "restart" /\ t.pc = "stop"
    /\ insts' = IF ok THEN StoppedInsts(t.inst) ELSE insts
    /\ video' = IF ok THEN StoppedVideo(t.inst) ELSE video
    /\ html5QrCodeRef' = 0
    /\ tasks' = Become(t, [t EXCEPT !.pc = "delay", !.inst = 0])
    /\ UNCHANGED <<reactVars, displayVars, ledgerVars, observerVars, pageVars,
                   visibility, now, mountPc, permWatch,
                   wasScanningRef, audioContextRef>>

\* ------------------------------------------------ lifecycle signals (537-582)
RestartTimer == [NoTask EXCEPT !.kind = "restart", !.pc = "timer",
                               !.capScanning = isScanning,
                               !.capPerm = permissionStatus]

\* visibilitychange to hidden (545-549)
handleVisibilityHidden ==
    /\ visibility = "visible"
    /\ visibility' = "hidden"
    /\ wasScanningRef' = isScanning
    /\ UNCHANGED <<reactVars, displayVars, ledgerVars, observerVars, pageVars, video,
                   insts, now, controlVars,
                   html5QrCodeRef, audioContextRef>>

\* visibilitychange to visible (539-544)
handleVisibilityVisible ==
    /\ visibility = "hidden"
    /\ CanSpawn
    /\ visibility' = "visible"
    /\ tasks' = Spawn(RestartTimer)
    /\ UNCHANGED <<reactVars, displayVars, ledgerVars, observerVars, pageVars, video,
                   insts, now, mountPc, permWatch,
                   html5QrCodeRef, wasScanningRef, audioContextRef>>

\* window focus (552-557)
handleFocus ==
    /\ visibility = "visible"
    /\ CanSpawn
    /\ tasks' = Spawn(RestartTimer)
    /\ UNCHANGED <<reactVars, displayVars, ledgerVars, observerVars, envVars,
                   mountPc, permWatch, html5QrCodeRef, wasScanningRef, audioContextRef>>

\* pageshow (559-566): only a page restored from the cache schedules a restart
handlePageShow(persisted) ==
    /\ visibility = "visible"
    /\ IF persisted
       THEN /\ CanSpawn
            /\ tasks' = Spawn(RestartTimer)
       ELSE UNCHANGED tasks
    /\ UNCHANGED <<reactVars, displayVars, ledgerVars, observerVars, envVars,
                   mountPc, permWatch, html5QrCodeRef, wasScanningRef, audioContextRef>>

\* The platform stops the camera stream of a hidden page.
StreamDies ==
    /\ visibility = "hidden"
    /\ video = LiveVideo
    /\ video' \in DeadVideos
    /\ UNCHANGED <<reactVars, displayVars, ledgerVars, observerVars, pageVars,
                   visibility, insts, now, controlVars,
                   html5QrCodeRef, wasScanningRef, audioContextRef>>

\* ------------------------------------------------------ mount effect (486-534)
AutoTimer == [NoTask EXCEPT !.kind = "auto", !.pc = "timer"]

QueryResults == {"granted", "denied", "prompt", "unsupported"}

\* navigator.permissions.query resolves, or the API is missing or throws
checkPermission(result) ==
    /\ mountPc = "query"
    /\ mountPc' = "done"
    /\ IF result = "unsupported"
       THEN /\ CanSpawn
            /\ tasks' = Spawn(AutoTimer)
            /\ UNCHANGED <<permissionStatus, showPermissionPrompt, permWatch>>
       ELSE /\ permissionStatus' = result
            /\ permWatch' = TRUE
            /\ IF result = "granted"
               THEN /\ CanSpawn
                    /\ showPermissionPrompt' = FALSE
                    /\ tasks' = Spawn(AutoTimer)
               ELSE UNCHANGED <<showPermissionPrompt, tasks>>
    /\ UNCHANGED <<isScanning, error, isInitializing, isSecureContext, displayVars,
                   ledgerVars, observerVars, envVars, html5QrCodeRef, wasScanningRef,
                   audioContextRef>>

\* result.onchange (506-516)
permissionChange(newState) ==
    /\ permWatch
    /\ permissionStatus' = newState
    /\ IF newState = "granted"
       THEN /\ CanSpawn
            /\ showPermissionPrompt' = FALSE
            /\ tasks' = Spawn(AutoTimer)
       ELSE UNCHANGED <<showPermissionPrompt, tasks>>
    /\ UNCHANGED <<isScanning, error, isInitializing, isSecureContext, displayVars,
                   ledgerVars, observerVars, envVars, mountPc, permWatch,
                   html5QrCodeRef, wasScanningRef, audioContextRef>>

\* -------------------------------------------------- handleScanSuccess (384-439)
DebouncedInclusive(code, at, lastScan) ==
    lastScan.code = code /\ (at - lastScan.timestamp) <= DEBOUNCE_TIME

DebouncedSeconds(code, at, lastScan) ==
    lastScan.code = code /\ (at - lastScan.timestamp) < DEBOUNCE_TIME \div 1000

\* The debounce test (389).
Debounced(code, at, lastScan) ==
    lastScan.code = code /\ (at - lastScan.timestamp) < DEBOUNCE_TIME

IsDuplicateNever(code, seen) == FALSE

\* The duplicate test (397).
IsDuplicate(code, seen) == code \in seen

ClassifyDebounceOnly(code, at, lastScan, seen) ==
    IF Debounced(code, at, lastScan) THEN "Suppressed" ELSE "Accepted"

\* The branch handleScanSuccess takes: return at 390, the duplicate branch
\* (399-414) or the new-scan branch (415-438).
Classify(code, at, lastScan, seen) ==
    IF Debounced(code, at, lastScan) THEN "Suppressed"
    ELSE IF IsDuplicate(code, seen) THEN "Duplicate"
    ELSE "Accepted"

\* The entry the new-scan branch builds (429).
HistoryEntry(code, at) ==
    [text |-> code, timestamp |-> LocaleTimeString(at), isDuplicate |-> FALSE]

AddToHistoryKeepTen(prev, entry) == <<entry>> \o Slice(prev, 0, HISTORY_KEEP + 1)

AddToHistoryAtEnd(prev, entry) == Slice(prev, 0, HISTORY_KEEP) \o <<entry>>

\* setScanHistory's updater (428-431).
AddToHistory(prev, entry) == <<entry>> \o Slice(prev, 0, HISTORY_KEEP)

HistoryAfterEveryOutcome(prev, code, at, outcome) ==
    IF outcome # "Suppressed" THEN AddToHistory(prev, HistoryEntry(code, at)) ELSE prev

\* The history after an event with the given outcome: only the new-scan
\* branch calls setScanHistory.
HistoryAfter(prev, code, at, outcome) ==
    IF outcome = "Accepted" THEN AddToHistory(prev, HistoryEntry(code, at)) ELSE prev

SeenAfterForgetful(seen, code, outcome) == seen

\* The seen set after an event with the given outcome (417).
SeenAfter(seen, code, outcome) ==
    IF outcome = "Accepted" THEN seen \cup {code} ELSE seen

LastScanAfterEveryFrame(lastScan, code, at, outcome) ==
    [code |-> code, timestamp |-> at]

\* The last sighting after an event with the given outcome (390, 394).
LastScanAfter(lastScan, code, at, outcome) ==
    IF outcome = "Suppressed" THEN lastScan ELSE [code |-> code, timestamp |-> at]

Bump(f, c) == IF c \in DOMAIN f THEN [f EXCEPT ![c] = @ + 1] ELSE f @@ (c :> 1)

handleScanSuccessNeedsAudio(code) ==
    LET outcome == Classify(code, now, lastScanRef, scannedCodesRef)
    IN  /\ OpenHandles # {}
        /\ lastScanRef' = LastScanAfter(lastScanRef, code, now, outcome)
        /\ scannedCodesRef' = SeenAfter(scannedCodesRef, code, outcome)
        /\ scanHistory' = IF initAudioContext(audioContextRef)
                        THEN HistoryAfter(scanHistory, code, now, outcome)
                        ELSE scanHistory
        /\ IF outcome = "Suppressed"
           THEN UNCHANGED <<scannedData, scanStatus, timers, audioContextRef>>
           ELSE /\ scanStatus' = IF outcome = "Duplicate" THEN "duplicate" ELSE "success"
                /\ scannedData' = [text |-> code, timestamp |-> LocaleTimeString(now),
                                   isDuplicate |-> (outcome = "Duplicate")]
                \* playSound calls initAudioContext (53)
                /\ audioContextRef' = initAudioContext(audioContextRef)
                /\ timers' = IF initAudioContext(audioContextRef)
                             THEN timers \cup {now + DISPLAY_TIME}
                             ELSE timers
        /\ event' = [code |-> code, at |-> now, outcome |-> outcome,
                      last |-> lastScanRef, known |-> (code \in scannedCodesRef),
                      prev |-> IF code \in Codes THEN arrivals[code] ELSE NoArrival]
        /\ accepts' = IF outcome = "Accepted" THEN Bump(accepts, code) ELSE accepts
        /\ arrivals' = IF code \in Codes
                       THEN [arrivals EXCEPT ![code] =
                                [at |-> now, outcome |-> outcome,
                                 known |-> (code \in scannedCodesRef)]]
                       ELSE arrivals
        /\ UNCHANGED <<reactVars, envVars, controlVars, html5QrCodeRef, wasScanningRef>>

\* The decoder's success callback (219-222) with decodedText = code, at Date.now().
handleScanSuccess(code) ==
    LET outcome == Classify(code, now, lastScanRef, scannedCodesRef)
    IN  /\ OpenHandles # {}
        /\ lastScanRef' = LastScanAfter(lastScanRef, code, now, outcome)
        /\ scannedCodesRef' = SeenAfter(scannedCodesRef, code, outcome)
        /\ scanHistory' = HistoryAfter(scanHistory, code, now, outcome)
        /\ IF outcome = "Suppressed"
           THEN UNCHANGED <<scannedData, scanStatus, timers, audioContextRef>>
           ELSE /\ scanStatus' = IF outcome = "Duplicate" THEN "duplicate" ELSE "success"
                /\ scannedData' = [text |-> code, timestamp |-> LocaleTimeString(now),
                                   isDuplicate |-> (outcome = "Duplicate")]
                \* playSound calls initAudioContext (53)
                /\ audioContextRef' = initAudioContext(audioContextRef)
                /\ timers' = timers \cup {now + DISPLAY_TIME}
        /\ event' = [code |-> code, at |-> now, outcome |-> outcome,
                      last |-> lastScanRef, known |-> (code \in scannedCodesRef),
                      prev |-> IF code \in Codes THEN arrivals[code] ELSE NoArrival]
        /\ accepts' = IF outcome = "Accepted" THEN Bump(accepts, code) ELSE accepts
        /\ arrivals' = IF code \in Codes
                       THEN [arrivals EXCEPT ![code] =
                                [at |-> now, outcome |-> outcome,
                                 known |-> (code \in scannedCodesRef)]]
                       ELSE arrivals
        /\ UNCHANGED <<reactVars, envVars, controlVars, html5QrCodeRef, wasScanningRef>>

handleScanFailureReports ==
    /\ OpenHandles # {}
    /\ error' = "Scan error"
    /\ UNCHANGED <<isScanning, isInitializing, permissionStatus, showPermissionPrompt,
                   isSecureContext, displayVars, ledgerVars, observerVars, envVars,
                   controlVars, html5QrCodeRef, wasScanningRef, audioContextRef>>

\* The decoder's per-frame failure callback (223-228): logs, changes nothing.
handleScanFailure ==
    /\ OpenHandles # {}
    /\ UNCHANGED vars

autoClearKeepsStatus(deadline) ==
    /\ deadline \in timers
    /\ deadline <= now
    /\ scannedData' = NoData
    /\ timers' = timers \ {deadline}
    /\ UNCHANGED <<reactVars, ledgerVars, observerVars, envVars, controlVars,
                   html5QrCodeRef, wasScanningRef, audioContextRef, scanStatus>>

\* An auto-clear callback runs when its 2000 ms are over (411-414, 434-437).
autoClear(deadline) ==
    /\ deadline \in timers
    /\ deadline <= now
    /\ scannedData' = NoData
    /\ scanStatus' = "null"
    /\ timers' = timers \ {deadline}
    /\ UNCHANGED <<reactVars, ledgerVars, observerVars, envVars, controlVars,
                   html5QrCodeRef, wasScanningRef, audioContextRef>>

\* The clock advances; a due timer callback runs before the clock passes it.
Tick(step) ==
    /\ now + step <= MaxTime
    /\ \A d \in timers : now + step <= d
    /\ now' = now + step
    /\ UNCHANGED <<reactVars, displayVars, ledgerVars, observerVars, pageVars,
                   visibility, video, insts, controlVars,
                   html5QrCodeRef, wasScanningRef, audioContextRef>>

\* -------------------------------------------------------------- specifications
\* Every lifecycle handler but the cleanup stop of startScanner's catch.
Handlers ==
    \/ requestCameraPermission
    \/ \E t \in Running, r \in ProbeResults : requestProbeResolve(t, r)
    \/ \E t \in Running : autoStartIfPermissionGranted(t)
    \/ \E t \in Running, r \in ProbeResults : autoProbeResolve(t, r)
    \/ \E t \in Running : startScanner(t)
    \/ \E t \in Running, ok \in BOOLEAN : startResolve(t, ok)
    \/ stopScanning
    \/ \E t \in Running, ok \in BOOLEAN, clearOk \in BOOLEAN : stopResolve(t, ok, clearOk)
    \/ \E t \in Running : restartScannerIfNeeded(t)
    \/ \E t \in Running, ok \in BOOLEAN : restartStopResolve(t, ok)
    \/ handleVisibilityHidden
    \/ handleVisibilityVisible
    \/ handleFocus
    \/ \E persisted \in BOOLEAN : handlePageShow(persisted)
    \/ StreamDies
    \/ \E r \in QueryResults : checkPermission(r)
    \/ \E s \in {"granted", "denied", "prompt"} : permissionChange(s)

\* The controller with its handlers overlapping (up to MaxTasks in flight) and
\* the clock standing still.
Init == Loaded(MaxTasks)

Next ==
    \/ Handlers
    \/ \E t \in Running, ok \in BOOLEAN : cleanupStopResolve(t, ok)
    \/ handleScanFailure

Spec == Init /\ [][Next]_vars

\* One session at a time: no handler starts while another is in flight; one
\* ticket is shown to the camera again and again while the clock advances by
\* the debounce window.
InitSession == Loaded(1)

NextSession ==
    \/ Handlers
    \/ handleScanSuccess(1)
    \/ handleScanFailure
    \/ \E d \in timers : autoClear(d)
    \/ Tick(DEBOUNCE_TIME)

SpecSession == InitSession /\ [][NextSession]_vars

\* The state an explicit start on the HTTPS page ends in (requestCameraPermission,
\* probe granted, first selector started): the session is Active.
Active(audio, limit) ==
    /\ overlap = limit
    /\ location = Https
    /\ mediaDevices = TRUE
    /\ audioAvailable = audio
    /\ isScanning = TRUE
    /\ scannedData = NoData
    /\ scanStatus = "null"
    /\ scanHistory = << >>
    /\ error = "null"
    /\ isInitializing = FALSE
    /\ permissionStatus = "granted"
    /\ showPermissionPrompt = FALSE
    /\ isSecureContext = TRUE
    /\ html5QrCodeRef = 1
    /\ lastScanRef = NoScan
    /\ scannedCodesRef = {}
    /\ wasScanningRef = TRUE
    /\ audioContextRef = audio
    /\ visibility = "visible"
    /\ video = LiveVideo
    /\ insts = [i \in InstIds |-> IF i = 1 THEN "running" ELSE "idle"]
    /\ now = 0
    /\ timers = {}
    /\ mountPc = "done"
    /\ permWatch = TRUE
    /\ tasks = EmptyBag
    /\ event = NoEvent
    /\ accepts = << >>
    /\ arrivals = [c \in Codes |-> NoArrival]

InitActive == Active(TRUE, 1)

\* Codes are compared for equality only, so the tickets are numbered in the
\* order of their first presentation.
Presentable == { c \in HistoryCodes : c <= Cardinality(scannedCodesRef) + 1 }

\* The ledger of an Active session: any of NCodes tickets at any time on a
\* grid of half the debounce window.
NextLedger ==
    \/ \E c \in Presentable \cap Codes : handleScanSuccess(c)
    \/ handleScanFailure
    \/ \E d \in timers : autoClear(d)
    \/ Tick(TickStep)

SpecLedger == InitActive /\ [][NextLedger]_vars

\* The history of an Active session: a crowd of up to NHistoryCodes tickets.
NextHistory ==
    \/ \E c \in Presentable : handleScanSuccess(c)
    \/ handleScanFailure

SpecHistory == InitActive /\ [][NextHistory]_vars

\* Recovery of an Active session on a device whose camera works when the page
\* comes back: the running decoder's stop() resolves, and of the three start
\* attempts the last-resort one succeeds if the first two did not.  The event
\* loop runs every timer callback and every settled promise's continuation.
NextRecovery ==
    \/ handleVisibilityHidden
    \/ StreamDies
    \/ handleVisibilityVisible
    \/ handleFocus
    \/ \E t \in Running : restartScannerIfNeeded(t)
    \/ \E t \in Running : restartStopResolve(t, TRUE)
    \/ \E t \in Running : startScanner(t)
    \/ \E t \in Running, ok \in BOOLEAN : (ok \/ t.pc # "try3") /\ startResolve(t, ok)
    \/ handleScanSuccess(1)
    \/ handleScanFailure
    \/ \E d \in timers : autoClear(d)
    \/ Tick(DEBOUNCE_TIME)

SpecRecovery ==
    /\ InitActive
    /\ [][NextRecovery]_vars
    /\ WF_vars(\E t \in Running : restartScannerIfNeeded(t))
    /\ WF_vars(\E t \in Running : restartStopResolve(t, TRUE))
    /\ WF_vars(\E t \in Running : startScanner(t))
    /\ WF_vars(\E t \in Running, ok \in BOOLEAN :
                   (ok \/ t.pc # "try3") /\ startResolve(t, ok))

\* Suspension of an Active session on a device whose camera may be gone when
\* the page comes back: the signals, the recovery with every outcome of the
\* decoder calls, and the operator's retry.
NextSuspend ==
    \/ handleVisibilityHidden
    \/ StreamDies
    \/ handleVisibilityVisible
    \/ handleFocus
    \/ \E persisted \in BOOLEAN : handlePageShow(persisted)
    \/ \E t \in Running : restartScannerIfNeeded(t)
    \/ \E t \in Running, ok \in BOOLEAN : restartStopResolve(t, ok)
    \/ \E t \in Running : startScanner(t)
    \/ \E t \in Running, ok \in BOOLEAN : startResolve(t, ok)
    \/ requestCameraPermission
    \/ \E t \in Running, r \in ProbeResults : requestProbeResolve(t, r)
    \/ handleScanFailure

SpecSuspend == InitActive /\ [][NextSuspend]_vars

\* The lifecycle alone, one handler at a time: loading, permission, explicit
\* and automatic starts, stops and lifecycle signals, without decode events.
SpecStart == InitSession /\ [][Handlers]_vars

\* Releasing a decoder: starts that may overlap (so that the catch of a failed
\* start finds a running decoder in the ref, 304-308) and recoveries that tear
\* the old decoder down (358-366), with every outcome of the decoder's stop().
NextRelease ==
    \/ requestCameraPermission
    \/ \E t \in Running : requestProbeResolve(t, "granted")
    \/ \E t \in Running : startScanner(t)
    \/ \E t \in Running, ok \in BOOLEAN : startResolve(t, ok)
    \/ \E t \in Running, ok \in BOOLEAN : cleanupStopResolve(t, ok)
    \/ handleVisibilityHidden
    \/ StreamDies
    \/ handleVisibilityVisible
    \/ \E t \in Running : restartScannerIfNeeded(t)
    \/ \E t \in Running, ok \in BOOLEAN : restartStopResolve(t, ok)

SpecRelease == Active(TRUE, MaxTasks) /\ [][NextRelease]_vars

\* A page the operator never touches: the mount-time permission query, the
\* permission's change events, the automatic start and the decode events of
\* the session it opens.  No button handler is among the actions.
NextMount ==
    \/ \E r \in QueryResults : checkPermission(r)
    \/ \E s \in {"granted", "denied", "prompt"} : permissionChange(s)
    \/ \E t \in Running : autoStartIfPermissionGranted(t)
    \/ \E t \in Running, r \in ProbeResults : autoProbeResolve(t, r)
    \/ \E t \in Running : startScanner(t)
    \/ \E t \in Running, ok \in BOOLEAN : startResolve(t, ok)
    \/ handleScanSuccess(1)
    \/ handleScanFailure
    \/ \E d \in timers : autoClear(d)
    \/ Tick(DEBOUNCE_TIME)

SpecMount == InitSession /\ [][NextMount]_vars

\* Explicit starts and stops after loading, one handler at a time, with the
\* mount-time query and the automatic start it may schedule.  Every external
\* call eventually resolves (getUserMedia, the decoder's start and stop) and
\* every timer eventually fires.
NextRequest ==
    \/ \E r \in QueryResults : checkPermission(r)
    \/ requestCameraPermission
    \/ \E t \in Running, r \in ProbeResults : requestProbeResolve(t, r)
    \/ \E t \in Running : autoStartIfPermissionGranted(t)
    \/ \E t \in Running, r \in ProbeResults : autoProbeResolve(t, r)
    \/ \E t \in Running : startScanner(t)
    \/ \E t \in Running, ok \in BOOLEAN : startResolve(t, ok)
    \/ stopScanning
    \/ \E t \in Running, ok \in BOOLEAN, clearOk \in BOOLEAN : stopResolve(t, ok, clearOk)

SpecRequest ==
    /\ InitSession
    /\ [][NextRequest]_vars
    /\ WF_vars(\E t \in Running, r \in ProbeResults : requestProbeResolve(t, r))
    /\ WF_vars(\E t \in Running : autoStartIfPermissionGranted(t))
    /\ WF_vars(\E t \in Running, r \in ProbeResults : autoProbeResolve(t, r))
    /\ WF_vars(\E t \in Running : startScanner(t))
    /\ WF_vars(\E t \in Running, ok \in BOOLEAN : startResolve(t, ok))
    /\ WF_vars(\E t \in Running, ok \in BOOLEAN, clearOk \in BOOLEAN :
                  stopResolve(t, ok, clearOk))

\* The ledger of an Active session on a device with or without a working audio
\* backend (one whose AudioContext cannot be constructed, 39-43).
InitFeedback == \E audio \in BOOLEAN : Active(audio, 1)

SpecFeedback == InitFeedback /\ [][NextLedger]_vars

\* The Stop button of an Active session, pressed up to MaxTasks times while
\* earlier presses are still awaiting the decoder (317-330, 730).
NextStop ==
    \/ stopScanning
    \/ \E t \in Running, ok \in BOOLEAN, clearOk \in BOOLEAN : stopResolve(t, ok, clearOk)
    \/ handleScanSuccess(1)
    \/ handleScanFailure
    \/ \E d \in timers : autoClear(d)
    \/ Tick(DEBOUNCE_TIME)

SpecStop == Active(TRUE, MaxTasks) /\ [][NextStop]_vars

\* ------------------------------------------------------------------- claims

\* C1: at most one decoder camera handle (running Html5Qrcode instance) is open
\* in every reachable state, whatever the interleaving of explicit starts,
\* automatic starts, recovery and stop.
C1_AtMostOneHandle == Cardinality(OpenHandles) <= 1

\* C2: within one session no code is classified Accepted more than once.
C2_AcceptedOnce == \A c \in DOMAIN accepts : accepts[c] <= 1

\* a ticket accepted earlier is shown again after the debounce window
C2_Witness ==
    /\ event.outcome = "Duplicate"
    /\ event.at >= DEBOUNCE_TIME
    /\ event.code \in DOMAIN accepts
    /\ accepts[event.code] = 1

\* C3: the precedence of the classification.  (1) Suppressed if the code is
\* the last sighting's and less than 2000 ms have passed since, and then
\* nothing is updated; (2) otherwise the last sighting becomes this code and
\* time, and the outcome is Duplicate if the code was seen; (3) otherwise the
\* code is inserted and the outcome is Accepted.  At exactly 2000 ms the event
\* is not Suppressed.
C3_Precedence ==
    event.outcome # "None" =>
        LET sameCode == event.last.code = event.code
            elapsed == event.at - event.last.timestamp
        IN  /\ (sameCode /\ elapsed < 2000) =>
                    /\ event.outcome = "Suppressed"
                    /\ lastScanRef = event.last
            /\ ~(sameCode /\ elapsed < 2000) =>
                    /\ lastScanRef = [code |-> event.code, timestamp |-> event.at]
                    /\ event.known => event.outcome = "Duplicate"
                    /\ ~event.known => /\ event.outcome = "Accepted"
                                       /\ event.code \in scannedCodesRef
            /\ (sameCode /\ elapsed = 2000) => event.outcome # "Suppressed"

\* the last sighting's code arrives again exactly 2000 ms later
C3_Witness ==
    /\ event.outcome = "Duplicate"
    /\ event.last.code = event.code
    /\ event.at - event.last.timestamp = 2000

\* C4, as claimed: whenever the same code arrives twice less than 2000 ms
\* apart, other codes in between or not, the later arrival is Suppressed.
C4_SuppressedWithinWindow ==
    (event.prev.at >= 0 /\ event.at - event.prev.at < 2000)
        => event.outcome = "Suppressed"

\* C4, amended: whenever the same code arrives twice less than 2000 ms apart,
\* the earlier arrival was not itself Suppressed and no other code was
\* classified Accepted or Duplicate in between (the earlier arrival is still
\* the last sighting), the later arrival is Suppressed.
C4_SuppressedAfterLastSighting ==
    (/\ event.prev.at >= 0
     /\ event.at - event.prev.at < 2000
     /\ event.prev.outcome # "Suppressed"
     /\ event.last.code = event.code)
        => event.outcome = "Suppressed"

\* a ticket stays in frame: accepted or flagged, and read again 1000 ms later
C4_Witness ==
    /\ event.outcome = "Suppressed"
    /\ event.prev.outcome \in {"Accepted", "Duplicate"}
    /\ event.at - event.prev.at = 1000

\* C5, as claimed: of two arrivals of a code at least 2000 ms apart, both are
\* Accepted if the code was not seen before the first, both Duplicate if it was.
C5_BothAlike ==
    (event.prev.at >= 0 /\ event.at - event.prev.at >= 2000) =>
        IF ~event.prev.known
        THEN event.prev.outcome = "Accepted" /\ event.outcome = "Accepted"
        ELSE event.prev.outcome = "Duplicate" /\ event.outcome = "Duplicate"

\* C5, amended: of two consecutive arrivals of a code at least 2000 ms apart,
\* the later is Duplicate; the earlier is Accepted if the code was not seen
\* before it, and Duplicate or Suppressed if it was.
C5_LaterIsDuplicate ==
    (event.prev.at >= 0 /\ event.at - event.prev.at >= 2000) =>
        /\ event.outcome = "Duplicate"
        /\ IF ~event.prev.known
           THEN event.prev.outcome = "Accepted"
           ELSE event.prev.outcome \in {"Duplicate", "Suppressed"}

\* a new ticket is accepted and shown again exactly 2000 ms later
C5_Witness ==
    /\ event.outcome = "Duplicate"
    /\ event.prev.outcome = "Accepted"
    /\ event.at - event.prev.at = 2000

\* C6: the first sighting of a code is never Duplicate, and every later
\* sighting that is not inside the debounce window is Duplicate.
C6_FirstNeverLaterAlways ==
    event.outcome # "None" =>
        LET inWindow == /\ event.last.code = event.code
                        /\ event.at - event.last.timestamp < 2000
        IN  /\ event.prev.at < 0 => event.outcome # "Duplicate"
            /\ (event.prev.at >= 0 /\ ~inWindow) => event.outcome = "Duplicate"

\* a ticket is shown again right after another one: a later sighting outside
\* the window of the last sighting
C6_Witness ==
    /\ event.outcome = "Duplicate"
    /\ event.prev.at >= 0
    /\ event.last.code # event.code
    /\ event.at - event.prev.at < 2000

\* C7: ScanHistory never holds more than 10 entries.
C7_HistoryBounded == Len(scanHistory) <= 10

\* the history is full and one more new ticket was accepted
C7_Witness ==
    /\ Len(scanHistory) = 10
    /\ Cardinality(scannedCodesRef) > 10

\* C8: ScanHistory is most-recent-first.  Whenever it changes, the recorded
\* outcome is its new first entry, the older entries follow in their old
\* order, and the last entry is dropped if and only if it held 10 before.
C8_MostRecentFirst ==
    [][scanHistory' # scanHistory =>
          /\ scanHistory'[1].text = event'.code
          /\ Tail(scanHistory') = IF Len(scanHistory) = 10
                                  THEN SubSeq(scanHistory, 1, 9)
                                  ELSE scanHistory]_vars

\* the first ticket of the crowd has been evicted, the ten after it are listed
\* newest first
C8_Witness ==
    /\ Len(scanHistory) = 10
    /\ \A i \in 1..10 : scanHistory[i].text = 12 - i

\* C9: every Accepted and every Duplicate outcome adds exactly one entry to
\* ScanHistory (flagged as duplicate or not) and a Suppressed outcome adds
\* none; so A@0, A@500, A@2500, B@2600 leaves [B, A(Duplicate), A].
C9_EveryOutcomeRecorded ==
    [][event' # event =>
          IF event'.outcome \in {"Accepted", "Duplicate"}
          THEN /\ Len(scanHistory') = Min(Len(scanHistory) + 1, 10)
               /\ scanHistory'[1].text = event'.code
               /\ scanHistory'[1].isDuplicate = (event'.outcome = "Duplicate")
          ELSE scanHistory' = scanHistory]_vars

\* C10: seenCodes never shrinks: no decode event, stop, start, recovery or
\* lifecycle signal removes a code.
C10_SeenMonotonic == [][scannedCodesRef \subseteq scannedCodesRef']_vars

\* a ticket is still remembered after the operator stopped the scanner
C10_Witness ==
    /\ scannedCodesRef # {}
    /\ ~isScanning
    /\ ~wasScanningRef
    /\ html5QrCodeRef = 0
    /\ OpenHandles = {}

\* C11: an explicit stop followed by a new start is a session reset: when the
\* new session becomes Active, seenCodes and ScanHistory are empty, so a code
\* that was Accepted before the reset is Accepted again at its first sighting.
C11_NewSessionStartsEmpty ==
    [][(~isScanning /\ ~wasScanningRef /\ isScanning')
           => (scannedCodesRef' = {} /\ scanHistory' = << >>)]_vars

C13_StaleStartHarmless ==
    [][\A t \in Running :
          (t.stale /\ t.pc \in {"try1", "try2", "try3"} /\ tasks' = Finish(t))
              => (~isScanning' /\ OpenHandles' = {})]_vars

\* C14: a failed explicit start is classified into pairwise distinct reasons.
\* On an insecure non-loopback origin the request ends with HTTPS_REQUIRED and
\* no camera acquisition is attempted; on a secure origin a refused probe
\* (NotAllowedError, PermissionDeniedError) yields the permission-denied
\* message, a missing camera (NotFoundError, DevicesNotFoundError) the
\* no-camera message, and anything else a message different from all of
\* these.  After every failure the request can be issued again.
C14_FailureReasons ==
    [][/\ (requestCameraPermission /\ ~IsSecure(location)) =>
              /\ error' = "HTTPS_REQUIRED"
              /\ permissionStatus' = "denied"
              /\ tasks' = tasks
              /\ ~isInitializing' /\ StartButtonShown'
       /\ ~IsSecure(location) => \A t \in Running : t.pc # "probe"
       /\ \A t \in Running, r \in ProbeResults \ {"granted"} :
              requestProbeResolve(t, r) =>
                  /\ r \in {"NotAllowedError", "PermissionDeniedError"} =>
                         /\ error' = "Camera permission denied"
                         /\ permissionStatus' = "denied"
                  /\ r \in {"NotFoundError", "DevicesNotFoundError"} =>
                         error' = "No camera found"
                  /\ r = "OtherError" =>
                         error' \notin {"null", "HTTPS_REQUIRED",
                                        "Camera permission denied", "No camera found"}
                  /\ ~isInitializing' /\ StartButtonShown']_vars

\* the operator asked for the camera on a plain-HTTP origin of the local network
C14_Witness ==
    /\ ~IsSecure(location)
    /\ error = "HTTPS_REQUIRED"
    /\ permissionStatus = "denied"
    /\ ~showPermissionPrompt
    /\ tasks = EmptyBag

\* C15: at most one displayed result and one auto-clear timer are live at a
\* time: a new Accepted or Duplicate outcome replaces the displayed result
\* and cancels the earlier timer, so it stays displayed for its own full
\* 2000 ms and is never cleared by the timer of an earlier outcome.
C15_OneTimerFullWindow ==
    /\ Cardinality(timers) <= 1
    /\ (event.outcome \in {"Accepted", "Duplicate"} /\ now < event.at + 2000) =>
           /\ scannedData.text = event.code
           /\ scanStatus # "null"

C17_NoAutoRetryAfterFailure ==
    [][\A t \in Running :
          (/\ error = "Failed to start camera"
           /\ ~isScanning
           /\ restartScannerIfNeeded(t))
              => tasks' = Finish(t)]_vars

\* C18: a per-frame decoder failure signal leaves the session state, the
\* error, the session memory, the history and the displayed result unchanged;
\* it never sets the operator-visible error.
C18_FrameFailureIsSilent ==
    [][handleScanFailure =>
          UNCHANGED <<isScanning, isInitializing, error, lastScanRef, scannedCodesRef,
                      scanHistory, scannedData, scanStatus, timers>>]_vars

\* frames without a code keep arriving while a result is displayed
C18_Witness ==
    /\ OpenHandles # {}
    /\ isScanning
    /\ error = "null"
    /\ scannedData # NoData
    /\ scanHistory # << >>

\* C19: scanning is independent of the feedback capability.  Whether or not
\* the audio backend is available, a decode event has the same outcome and
\* the same effect on seenCodes, lastSighting, ScanHistory and the displayed
\* result: each is determined by the code, the time and the session memory.
C19_FeedbackIndependent ==
    [][\A c \in HistoryCodes : handleScanSuccess(c) =>
          LET debounced == lastScanRef.code = c /\ now - lastScanRef.timestamp < 2000
              known == c \in scannedCodesRef
          IN  IF debounced
              THEN /\ event'.outcome = "Suppressed"
                   /\ UNCHANGED <<lastScanRef, scannedCodesRef, scanHistory,
                                  scannedData, scanStatus, timers>>
              ELSE /\ event'.outcome = IF known THEN "Duplicate" ELSE "Accepted"
                   /\ lastScanRef' = [code |-> c, timestamp |-> now]
                   /\ scannedCodesRef' = scannedCodesRef \cup {c}
                   /\ scanHistory' = IF known THEN scanHistory
                                     ELSE <<[text |-> c, timestamp |-> now \div 1000,
                                             isDuplicate |-> FALSE]>>
                                          \o SubSeq(scanHistory, 1,
                                                    Min(9, Len(scanHistory)))
                   /\ scannedData' = [text |-> c, timestamp |-> now \div 1000,
                                      isDuplicate |-> known]
                   /\ scanStatus' = IF known THEN "duplicate" ELSE "success"
                   /\ timers' = timers \cup {now + 2000}]_vars

\* a ticket was accepted and recorded on a device without audio backend
C19_Witness ==
    /\ ~audioAvailable
    /\ ~audioContextRef
    /\ event.outcome = "Accepted"
    /\ scanHistory # << >>
    /\ scannedData.text = event.code
    /\ timers # {}

\* C20: stop is idempotent.  Pressing Stop again, whether the earlier press
\* has resolved or is still awaiting the decoder, raises no error; on a decoder
\* that is already released it changes nothing; and whenever the decoder's
\* stop and clear succeed the result is the one of a single stop: not scanning,
\* no handle held, no decoder running.
C20_StopIdempotent ==
    [][/\ stopScanning => error' = error
       /\ \A t \in Running, ok \in BOOLEAN, clearOk \in BOOLEAN :
            stopResolve(t, ok, clearOk) =>
                /\ error' = error
                /\ ~wasScanningRef'
                /\ html5QrCodeRef = 0 =>
                      UNCHANGED <<html5QrCodeRef, isScanning, insts, video>>
                /\ (ok /\ clearOk) =>
                      (~isScanning' /\ html5QrCodeRef' = 0 /\ OpenHandles' = {})]_vars

\* a second stop is still awaiting the decoder after the first has released it
C20_Witness ==
    /\ \E t \in Running : t.kind = "stop" /\ t.pc = "stop"
    /\ ~isScanning
    /\ html5QrCodeRef = 0
    /\ OpenHandles = {}
    /\ error = "null"

\* C21: startScanner tries the camera selectors in strict order: the
\* environment-facing object first, the string "environment" only after that
\* failed, the user-facing object only after both failed; once an attempt
\* succeeds the handler issues no further attempt, and the success starts
\* exactly the decoder of that handler.
C21_SelectorOrder ==
    [][\A t \in Running :
          /\ startScanner(t) =>
                \E u \in BagToSet(tasks') :
                    /\ tasks' = Become(t, u)
                    /\ Selector(u.pc) = "facingMode:environment"
          /\ \A ok \in BOOLEAN : startResolve(t, ok) =>
                LET order == <<"facingMode:environment", "environment",
                               "facingMode:user">>
                    k == CHOOSE n \in 1..3 : order[n] = Selector(t.pc)
                    attempts == { u \in BagToSet(tasks') :
                                     u.pc \in {"try1", "try2", "try3"} }
                IN  IF ok
                    THEN /\ tasks' = Finish(t)
                         /\ OpenHandles' = OpenHandles \cup {t.inst}
                    ELSE /\ OpenHandles' = OpenHandles
                         /\ IF k < 3
                            THEN \E u \in attempts :
                                    /\ tasks' = Become(t, u)
                                    /\ Selector(u.pc) = order[k + 1]
                                    /\ u.inst = t.inst
                            ELSE attempts \subseteq BagToSet(Finish(t))]_vars

\* two selectors have failed and the user-facing one is being tried
C21_Witness ==
    /\ \E t \in Running : t.pc = "try3" /\ Selector(t.pc) = "facingMode:user"
    /\ ~isScanning
    /\ OpenHandles = {}

\* C22: when the third and last selector fails, the session is Failed: the
\* error is set, it is neither scanning nor initializing, and the decoder
\* object created for the attempt is not running and referenced neither by
\* html5QrCodeRef nor by a handler.
C22_ExhaustedIsFailed ==
    [][\A t \in Running :
          (t.pc = "try3" /\ startResolve(t, FALSE)) =>
              /\ error' # "null"
              /\ ~isScanning'
              /\ ~isInitializing'
              /\ html5QrCodeRef' = 0
              /\ Unreferenced(t.inst)']_vars

\* the start has just failed on the third selector
C22_Witness ==
    /\ error = "Failed to start camera"
    /\ ~isScanning
    /\ ~isInitializing
    /\ html5QrCodeRef = 0
    /\ tasks = EmptyBag
    /\ OpenHandles = {}

\* C23: when the decoder restart of an automatic recovery fails on its last
\* selector, the session is Failed with the lost-connection reason and the
\* was-active flag is cleared.
C23_RecoveryFailureIsLostConnection ==
    [][\A t \in Running :
          (t.kind = "restart" /\ t.pc = "try3" /\ startResolve(t, FALSE)) =>
              /\ error' = "Camera lost connection"
              /\ ~isInitializing'
              /\ ~wasScanningRef']_vars

\* C24: when the callback of a visible, focus or page-restored signal runs,
\* the decoder is torn down and recreated if and only if the was-active flag
\* is set and the camera stream is not live; and when the session is scanning
\* with a live stream the callback changes nothing.
C24_RecreateIffDeadStream ==
    [][\A t \in Running : restartScannerIfNeeded(t) =>
          /\ (tasks' # Finish(t)) <=> (wasScanningRef /\ ~checkCameraWorking)
          /\ (isScanning /\ checkCameraWorking) =>
                /\ tasks' = Finish(t)
                /\ UNCHANGED <<reactVars, insts, video, html5QrCodeRef,
                               wasScanningRef>>]_vars

\* C25: when an explicit stop completes, whether the decoder's stop call
\* resolved or rejected, the session is Idle: not scanning, the decoder
\* stopped and no longer referenced, and the was-active flag false.
C25_StopReachesIdle ==
    [][\A t \in Running, ok \in BOOLEAN, clearOk \in BOOLEAN :
          stopResolve(t, ok, clearOk) =>
              /\ ~isScanning'
              /\ html5QrCodeRef' = 0
              /\ insts'[t.inst] = "idle"
              /\ ~wasScanningRef']_vars

\* C26: a handler of an explicit or automatic start creates and starts the
\* decoder only after its probe stream has been acquired and released; a
\* failed probe ends the handler without a decoder being created or started.
C26_ProbeBeforeDecoder ==
    /\ [](\A t \in Running :
            (t.kind \in {"request", "auto"} /\ t.pc \in {"delay", "try1", "try2", "try3"})
                => t.probe = "released")
    /\ [][\A t \in Running, r \in ProbeResults \ {"granted"} :
            (requestProbeResolve(t, r) \/ autoProbeResolve(t, r)) =>
                /\ tasks' = Finish(t)
                /\ UNCHANGED <<insts, html5QrCodeRef, isScanning>>]_vars

\* the first decoder start of an automatic start is pending, its probe released
C26_Witness ==
    \E t \in Running : t.kind = "auto" /\ t.pc = "try1" /\ t.probe = "released"

\* C27: an error raised while releasing a decoder is swallowed.  The last
\* failed start attempt reports the start failure; a rejected stop() in the
\* cleanup that follows leaves that report as it is and still drops the
\* handle; and a rejected stop() of the old decoder during recovery leaves the
\* recovery on its way to the restart.
C27_ReleaseErrorsSwallowed ==
    [][\A t \in Running :
          /\ (t.pc = "try3" /\ startResolve(t, FALSE)) =>
                error' = "Failed to start camera"
          /\ cleanupStopResolve(t, FALSE) =>
                /\ error' = error
                /\ html5QrCodeRef' = 0
                /\ tasks' = Finish(t)
          /\ restartStopResolve(t, FALSE) =>
                /\ error' = error
                /\ isInitializing' = isInitializing
                /\ html5QrCodeRef' = 0
                /\ \E u \in BagToSet(tasks') :
                      /\ tasks' = Become(t, u)
                      /\ u.kind = "restart" /\ u.pc = "delay"]_vars

\* the old decoder's stop() was rejected during recovery: it is still running,
\* the ref is dropped and the recovery is waiting to restart
C27_Witness ==
    /\ \E t \in Running : t.kind = "restart" /\ t.pc = "delay"
    /\ html5QrCodeRef = 0
    /\ OpenHandles # {}
    /\ isInitializing
    /\ error = "null"

\* C28: the audio context is not created before an explicit user interaction:
\* on a page the operator never touches, automatic start included, there is
\* no audio context.
C28_NoAudioBeforeInteraction == ~audioContextRef

\* C29: provided every external call eventually resolves, a session that is
\* initializing after an explicit start request eventually stops initializing
\* and is then either scanning or showing an error.
C29_InitializingSettles ==
    isInitializing ~> (~isInitializing /\ (isScanning \/ error # "null"))

\* an explicit start is awaiting its probe
C29_Witness ==
    /\ isInitializing
    /\ \E t \in Running : t.kind = "request" /\ t.pc = "probe"

\* C30: a Suppressed event changes nothing: a decode event of the code of the
\* last sighting, less than 2000 ms after it, leaves lastScanRef, the seen set,
\* the history, the displayed result, its timers and the audio backend as they
\* were.  The window is therefore measured from the last sighting that was not
\* suppressed: 2000 ms after it the code is classified again, however recently
\* a suppressed frame of it was seen.
C30_SuppressedChangesNothing ==
    [][\A c \in HistoryCodes : handleScanSuccess(c) =>
          IF lastScanRef.code = c /\ now - lastScanRef.timestamp < 2000
          THEN /\ event'.outcome = "Suppressed"
               /\ UNCHANGED <<lastScanRef, scannedCodesRef, scanHistory, scannedData,
                              scanStatus, timers, audioContextRef>>
          ELSE /\ event'.outcome # "Suppressed"
               /\ lastScanRef' = [code |-> c, timestamp |-> now]]_vars

\* a code is classified again less than 2000 ms after a suppressed frame of it
C30_Witness ==
    /\ event.outcome = "Duplicate"
    /\ event.prev.outcome = "Suppressed"
    /\ event.at - event.prev.at < 2000
    /\ event.last.code = event.code
    /\ event.at - event.last.timestamp >= 2000

\* C31: lifecycle operations leave the ledger untouched: only a decode event
\* changes the seen set, the last sighting or the history, so a code accepted
\* before a suspend/recovery cycle is still known after it.
C31_OnlyDecodeEventsWriteLedger ==
    [][(ledgerVars' # ledgerVars) => \E c \in HistoryCodes : handleScanSuccess(c)]_vars

\* a recovery has torn the old decoder down and is starting the new one; the
\* code accepted before the suspension is still in the ledger
C31_Witness ==
    /\ \E t \in Running : t.kind = "restart" /\ t.pc \in {"try1", "try2", "try3"}
    /\ 1 \in scannedCodesRef
    /\ lastScanRef.code = 1
    /\ Len(scanHistory) = 1
    /\ html5QrCodeRef # 0

\* C32: after a successful explicit stop (not scanning, the was-active flag
\* false, no handle held, no start or recovery under way) no hidden, visible,
\* focus or page-restored signal and no callback of one reopens the camera:
\* the session leaves that state only by a start request of the operator or
\* by a permission notification that schedules an automatic start, and until
\* then no decoder is started.
C32_StoppedStaysStopped ==
    [][(/\ ~isScanning
        /\ ~wasScanningRef
        /\ html5QrCodeRef = 0
        /\ \A t \in Running : t.kind = "restart" /\ t.pc = "timer") =>
          /\ OpenHandles' \subseteq OpenHandles
          /\ \/ /\ ~isScanning'
                /\ ~wasScanningRef'
                /\ html5QrCodeRef' = 0
                /\ \A t \in BagToSet(tasks') : t.kind = "restart" /\ t.pc = "timer"
             \/ requestCameraPermission
             \/ \E r \in QueryResults : checkPermission(r)
             \/ \E s \in {"granted", "denied", "prompt"} : permissionChange(s)]_vars

\* a session was started and stopped, and a signal's callback is pending
C32_Witness ==
    /\ ~isScanning
    /\ ~wasScanningRef
    /\ html5QrCodeRef = 0
    /\ OpenHandles = {}
    /\ permissionStatus = "granted"
    /\ audioContextRef
    /\ error = "null"
    /\ ~isInitializing
    /\ tasks # EmptyBag
    /\ \A t \in Running : t.kind = "restart" /\ t.pc = "timer"

\* C33: whenever the session is reported as scanning, a decoder handle is
\* held.
C33_ScanningHoldsHandle == isScanning => html5QrCodeRef # 0

\* C34: every code in the scan history is a member of the seen set, and no
\* code appears in the history more than once.
C34_HistoryWithinSeen ==
    /\ \A i \in 1..Len(scanHistory) : scanHistory[i].text \in scannedCodesRef
    /\ \A i, j \in 1..Len(scanHistory) :
          scanHistory[i].text = scanHistory[j].text => i = j

\* a code that is in the history was presented again and classified Duplicate,
\* and the history has already dropped its oldest entry
C34_Witness ==
    /\ event.outcome = "Duplicate"
    /\ \E i \in 1..Len(scanHistory) : scanHistory[i].text = event.code
    /\ Len(scanHistory) = 10
    /\ Cardinality(scannedCodesRef) > 10

====
